---- MODULE Spec2Model ----
(***************************************************************************)
(* sauerkraut: a service declared once (methods tagged @service_method),   *)
(* a JSON-RPC client class generated from it and a JSON-RPC server built   *)
(* from it.  The model follows src/sauerkraut/__init__.py and              *)
(* src/sauerkraut/jsonrpc/__init__.py.                                     *)
(***************************************************************************)
EXTENDS Integers, Sequences, FiniteSets, TLC

VARIABLES
    service_cls,            \* the service declaration both sides are built from
    client_built,           \* create_jsonrpc_client_factory has run
    method_configs,         \* client: service_config.method_configs
    method_map,             \* client: names of the generated methods
    method_config,          \* client: the loop variable the closures read
    server_built,           \* create_jsonrpc_server has run
    method_names,           \* server: the names handed to JsonRpcServer
    dispatcher,             \* server: names registered in the Dispatcher
    srv_method_name,        \* server: loop variable method_name of __init__
    wrapped_method,         \* server: variable wrapped_method of __init__
    pc,                     \* position of the call in progress
    call,                   \* the proxy call: method, args, kwargs
    method_name,            \* method_func local: method_name
    unserialized_params,    \* method_func local: unserialized_params
    jsonrpc_params,         \* method_func local: jsonrpc_params
    unserialized_response,  \* method_func local: unserialized_response
    result,                 \* value returned to the proxy's caller
    error,                  \* exception that reached the proxy's caller
    ctrace,                 \* collaborator calls made by method_func, in order
    sreq,                   \* server: the request being dispatched
    sresult,                \* server: outcome of the handler
    strace                  \* server: collaborator calls made by the handler

vars == <<service_cls, client_built, method_configs, method_map, method_config,
          server_built, method_names, dispatcher, srv_method_name, wrapped_method,
          pc, call, method_name, unserialized_params, jsonrpc_params,
          unserialized_response, result, error, ctrace, sreq, sresult, strace>>

\* ------------------------------------------------------------------ bounds

\* methods in one service declaration
MaxMethods == 2
\* positional arguments at a call site (the receiver not counted)
MaxArgs == 3
\* keyword arguments at a call site
MaxKwargs == 2

\* argument values at call sites; 3 is the default of bar's y
Vals == {1, 3}
\* keyword names at call sites ("z" is no parameter of bar)
KwNames == {"x", "y", "z"}

\* ------------------------------------------------- service declarations

Param(n) == [name |-> n, has_default |-> FALSE, default |-> 0]
ParamD(n, d) == [name |-> n, has_default |-> TRUE, default |-> d]

\* The methods a declaration may hold, as written in a class body: bar is the
\* test's method; baz and foo are further service methods; aux is a method
\* without the @service_method tag.
MethodDecls ==
    { [name |-> "bar", marked |-> TRUE,
       params |-> <<Param("self"), Param("x"), ParamD("y", 3)>>],
      [name |-> "baz", marked |-> TRUE,
       params |-> <<Param("self"), Param("x"), ParamD("y", 3), ParamD("z", 1)>>],
      [name |-> "foo", marked |-> TRUE,
       params |-> <<Param("self"), Param("z")>>],
      [name |-> "aux", marked |-> FALSE,
       params |-> <<Param("self"), Param("x")>>] }

\* Python compares str by code point, left to right.
CodePoints(s) ==
    CASE s = "bar" -> <<98, 97, 114>>
      [] s = "baz" -> <<98, 97, 122>>
      [] s = "foo" -> <<102, 111, 111>>
      [] s = "aux" -> <<97, 117, 120>>

RECURSIVE SeqLess(_, _)
SeqLess(a, b) ==
    IF a = <<>> THEN b # <<>>
    ELSE IF b = <<>> THEN FALSE
    ELSE IF Head(a) # Head(b) THEN Head(a) < Head(b)
    ELSE SeqLess(Tail(a), Tail(b))

StrLess(s, t) == SeqLess(CodePoints(s), CodePoints(t))

\* A class body: methods in declaration order, names distinct (a later def of
\* the same name replaces the earlier one in the class namespace).
Services ==
    { s \in UNION { [1..n -> MethodDecls] : n \in 1..MaxMethods } :
        \A i, j \in DOMAIN s : i # j => s[i].name # s[j].name }

\* The body of the implementation's method `name` on bound arguments a.
ImplBody(name, a) ==
    LET v(n) == a[CHOOSE i \in DOMAIN a : a[i].name = n].value
    IN  CASE name = "bar" -> v("x") * 2 + v("y") * 3
          [] name = "baz" -> v("x") + v("y") * 10 + v("z") * 100
          [] name = "foo" -> v("z") + 1000
          [] name = "aux" -> v("x")

\* --------------------------------------------------------- ordered dicts

Has(d, n) == \E i \in DOMAIN d : d[i].name = n
Get(d, n) == d[CHOOSE i \in DOMAIN d : d[i].name = n].value
Pop(d, n) == SelectSeq(d, LAMBDA e : e.name # n)
Keys(d) == [i \in DOMAIN d |-> d[i].name]
Item(n, v) == [name |-> n, value |-> v]

Ok(v) == [kind |-> "ok", value |-> v, msg |-> "", arg |-> ""]
Raise(k, m, a) == [kind |-> k, value |-> <<>>, msg |-> m, arg |-> a]

\* ------------------------------------------- sauerkraut.get_service_config

is_service_method(m) == m.marked

\* sorted insertion by name
RECURSIVE SortedInsert(_, _)
SortedInsert(sorted, m) ==
    IF sorted = <<>> THEN <<m>>
    ELSE IF StrLess(m.name, Head(sorted).name) THEN <<m>> \o sorted
    ELSE <<Head(sorted)>> \o SortedInsert(Tail(sorted), m)

RECURSIVE SortByName(_)
SortByName(ms) ==
    IF ms = <<>> THEN <<>>
    ELSE SortedInsert(SortByName(SubSeq(ms, 1, Len(ms) - 1)), ms[Len(ms)])

\* The members in the order the class body lists them.
getmembers_unsorted(cls) == SelectSeq(cls, is_service_method)

\* inspect.getmembers(cls, predicate=is_service_method): the members that
\* satisfy the predicate, as (name, value) pairs sorted by name.
getmembers(cls) == SortByName(SelectSeq(cls, is_service_method))

\* ServiceMethodConfig(name, func, config, signature) of each member.
get_service_config(cls) ==
    LET methods == getmembers(cls)
    IN  [i \in DOMAIN methods |->
            [name |-> methods[i].name, signature |-> methods[i].params]]

\* -------------------------------------------------- inspect.Signature.bind

\* Second loop of Signature._bind: the parameters left after the positional
\* arguments, in order, take their keyword; then no keyword may be left.
RECURSIVE bind_keywords(_, _, _, _)
bind_keywords(sig, kwargs, i, arguments) ==
    IF i > Len(sig)
    THEN IF kwargs # <<>>
         THEN Raise("TypeError", "got an unexpected keyword argument", kwargs[1].name)
         ELSE Ok(arguments)
    ELSE IF Has(kwargs, sig[i].name)
    THEN bind_keywords(sig, Pop(kwargs, sig[i].name), i + 1,
             Append(arguments, Item(sig[i].name, Get(kwargs, sig[i].name))))
    ELSE IF ~sig[i].has_default
    THEN Raise("TypeError", "missing a required argument", sig[i].name)
    ELSE bind_keywords(sig, kwargs, i + 1, arguments)

\* A binder that rejects a positional overflow before it looks at any
\* parameter.
RECURSIVE bind_positional_count_first(_, _, _, _, _)
bind_positional_count_first(sig, args, kwargs, i, arguments) ==
    IF Len(args) > Len(sig)
    THEN Raise("TypeError", "too many positional arguments", "")
    ELSE IF i > Len(args)
    THEN bind_keywords(sig, kwargs, i, arguments)
    ELSE IF Has(kwargs, sig[i].name)
    THEN Raise("TypeError", "multiple values for argument", sig[i].name)
    ELSE bind_positional_count_first(sig, args, kwargs, i + 1,
             Append(arguments, Item(sig[i].name, args[i])))

\* First loop of Signature._bind: each positional argument takes the next
\* parameter; when the arguments run out the keyword loop takes over.
RECURSIVE bind_positional(_, _, _, _, _)
bind_positional(sig, args, kwargs, i, arguments) ==
    IF i > Len(args)
    THEN bind_keywords(sig, kwargs, i, arguments)
    ELSE IF i > Len(sig)
    THEN Raise("TypeError", "too many positional arguments", "")
    ELSE IF Has(kwargs, sig[i].name)
    THEN Raise("TypeError", "multiple values for argument", sig[i].name)
    ELSE bind_positional(sig, args, kwargs, i + 1,
             Append(arguments, Item(sig[i].name, args[i])))

\* BoundArguments.apply_defaults: every parameter in declaration order, an
\* unbound one with its default.
apply_defaults(sig, arguments) ==
    [i \in DOMAIN sig |->
        IF Has(arguments, sig[i].name)
        THEN Item(sig[i].name, Get(arguments, sig[i].name))
        ELSE Item(sig[i].name, sig[i].default)]

\* signature.bind(self, *args, **kwargs); apply_defaults(); dict(arguments);
\* pop('self')
bind_params(sig, args, kwargs) ==
    LET b == bind_positional(sig, <<"<self>">> \o args, kwargs, 1, <<>>)
    IN  IF b.kind = "ok"
        THEN Ok(Pop(apply_defaults(sig, b.value), "self"))
        ELSE b

\* ------------------------------------------------ a call of a Python method

\* Keywords of a direct call, in call-site order: each must name a
\* parameter, and one not already filled by position.
RECURSIVE call_keywords(_, _, _, _)
call_keywords(sig, npos, kwargs, k) ==
    IF k > Len(kwargs) THEN Ok(<<>>)
    ELSE IF ~\E i \in DOMAIN sig : sig[i].name = kwargs[k].name
    THEN Raise("TypeError", "got an unexpected keyword argument", kwargs[k].name)
    ELSE IF \E i \in 1..npos : sig[i].name = kwargs[k].name
    THEN Raise("TypeError", "got multiple values for argument", kwargs[k].name)
    ELSE call_keywords(sig, npos, kwargs, k + 1)

\* method(*args, **kwargs) on an instance: the interpreter fills the
\* parameters, then runs the body.
call_method(m, args, kwargs) ==
    LET sig == m.params
        full == <<"<self>">> \o args
        npos == IF Len(full) < Len(sig) THEN Len(full) ELSE Len(sig)
        kw == call_keywords(sig, npos, kwargs, 1)
        missing == { i \in DOMAIN sig :
                       /\ i > npos
                       /\ ~Has(kwargs, sig[i].name)
                       /\ ~sig[i].has_default }
        bound == [i \in DOMAIN sig |->
                    IF i <= npos THEN Item(sig[i].name, full[i])
                    ELSE IF Has(kwargs, sig[i].name)
                    THEN Item(sig[i].name, Get(kwargs, sig[i].name))
                    ELSE Item(sig[i].name, sig[i].default)]
    IN  IF kw.kind # "ok" THEN kw
        ELSE IF Len(full) > Len(sig)
        THEN Raise("TypeError", "too many positional arguments", "")
        ELSE IF missing # {}
        THEN Raise("TypeError", "missing required positional argument",
                   sig[CHOOSE i \in missing : \A j \in missing : i <= j].name)
        ELSE Ok(ImplBody(m.name, bound))

\* ------------------------------------------------------------ call sites

RECURSIVE SeqsUpTo(_, _)
SeqsUpTo(S, n) ==
    IF n = 0 THEN {<<>>}
    ELSE LET shorter == SeqsUpTo(S, n - 1)
         IN  shorter \cup { Append(q, x) : q \in shorter, x \in S }

ArgLists == SeqsUpTo(Vals, MaxArgs)

\* **kwargs in call-site order; a keyword cannot be repeated in one call
KwargLists ==
    { k \in SeqsUpTo({Item(n, v) : n \in KwNames, v \in Vals}, MaxKwargs) :
        \A i, j \in DOMAIN k : i # j => k[i].name # k[j].name }

\* ------------------------------------------------ StandardJsonRpcSerializer

serialize(method, data) == data
deserialize(method, data) == data

Ev(op, method) == [op |-> op, method |-> method]

NoConfig == [name |-> "", signature |-> <<>>]
NoMethod == [name |-> "", marked |-> FALSE, params |-> <<>>]
NoCall == [method |-> "", args |-> <<>>, kwargs |-> <<>>]
NoError == Ok(<<>>)

\* --------------------------------------------------------------- the server

\* getattr(self._service, method_name)
getattr_method(cls, n) == cls[CHOOSE i \in DOMAIN cls : cls[i].name = n]

\* JsonRpcServer.__init__'s wrapper, as stored under any name of the
\* dispatcher: it reads method_name and wrapped_method of the enclosing
\* __init__ when it runs.  The trace lists the serializer calls and the call
\* of wrapped_method ("invoke"); nothing follows a call that raises.
wrapper(args, kwargs) ==
    LET deserialized_args == deserialize(srv_method_name, args)
        deserialized_kwargs == deserialize(srv_method_name, kwargs)
        r == call_method(wrapped_method, deserialized_args, deserialized_kwargs)
        before == << Ev("deserialize", srv_method_name),
                     Ev("deserialize", srv_method_name),
                     Ev("invoke", wrapped_method.name) >>
    IN  IF r.kind = "ok"
        THEN [outcome |-> Ok(serialize(srv_method_name, r.value)),
              trace |-> Append(before, Ev("serialize", srv_method_name))]
        ELSE [outcome |-> r, trace |-> before]

Last(q, none) == IF q = <<>> THEN none ELSE q[Len(q)]

ClientIdle ==
    /\ call' = NoCall
    /\ method_name' = ""
    /\ unserialized_params' = <<>>
    /\ jsonrpc_params' = <<>>
    /\ unserialized_response' = 0
    /\ result' = 0
    /\ error' = NoError
    /\ ctrace' = <<>>

ServerIdle ==
    /\ sreq' = NoCall
    /\ sresult' = NoError
    /\ strace' = <<>>

Init ==
    /\ service_cls \in Services
    /\ client_built = FALSE
    /\ method_configs = <<>>
    /\ method_map = <<>>
    /\ method_config = NoConfig
    /\ server_built = FALSE
    /\ method_names = <<>>
    /\ dispatcher = <<>>
    /\ srv_method_name = ""
    /\ wrapped_method = NoMethod
    /\ pc = "idle"
    /\ call = NoCall
    /\ method_name = ""
    /\ unserialized_params = <<>>
    /\ jsonrpc_params = <<>>
    /\ unserialized_response = 0
    /\ result = 0
    /\ error = NoError
    /\ ctrace = <<>>
    /\ sreq = NoCall
    /\ sresult = NoError
    /\ strace = <<>>

\* create_jsonrpc_server(service_cls): every wrapper is registered under its
\* own name; the variables the wrappers read are left at the values of the
\* last iteration.
create_jsonrpc_server ==
    /\ pc = "idle"
    /\ ~server_built
    /\ LET service_config == get_service_config(service_cls)
           names == Keys(service_config)
       IN  /\ method_names' = names
           /\ dispatcher' = names
           /\ srv_method_name' = Last(names, "")
           /\ wrapped_method' =
                  IF names = <<>> THEN NoMethod
                  ELSE getattr_method(service_cls, Last(names, ""))
    /\ server_built' = TRUE
    /\ UNCHANGED <<service_cls, client_built, method_configs, method_map,
                   method_config, pc, call, method_name, unserialized_params,
                   jsonrpc_params, unserialized_response, result, error, ctrace,
                   sreq, sresult, strace>>

\* create_jsonrpc_client_factory(service_cls, url): one method_func per
\* method_config goes into method_map; the loop variable method_config, which
\* every method_func reads when called, is left at the last element.
create_jsonrpc_client_factory ==
    /\ pc = "idle"
    /\ ~client_built
    /\ LET service_config == get_service_config(service_cls)
       IN  /\ method_configs' = service_config
           /\ method_map' = Keys(service_config)
           /\ method_config' = Last(service_config, NoConfig)
    /\ client_built' = TRUE
    /\ UNCHANGED <<service_cls, server_built, method_names, dispatcher,
                   srv_method_name, wrapped_method, pc, call, method_name,
                   unserialized_params, jsonrpc_params, unserialized_response,
                   result, error, ctrace, sreq, sresult, strace>>

Built == <<service_cls, client_built, method_configs, method_map, method_config,
           server_built, method_names, dispatcher, srv_method_name, wrapped_method>>

\* A method_func that hands the raw keywords to the serializer before it
\* binds.
method_func_serialize_first ==
    /\ pc = "idle"
    /\ client_built
    /\ \E i \in DOMAIN method_map, args \in ArgLists, kwargs \in KwargLists :
        /\ call' = [method |-> method_map[i], args |-> args, kwargs |-> kwargs]
        /\ ctrace' = <<Ev("serialize", method_config.name)>>
        /\ LET b == bind_params(method_config.signature, args, kwargs)
           IN  IF b.kind = "ok"
               THEN /\ pc' = "serialized"
                    /\ method_name' = method_config.name
                    /\ unserialized_params' = b.value
                    /\ jsonrpc_params' = serialize(method_config.name, b.value)
                    /\ error' = NoError
               ELSE /\ pc' = "raised"
                    /\ method_name' = ""
                    /\ unserialized_params' = <<>>
                    /\ jsonrpc_params' = <<>>
                    /\ error' = b
        /\ UNCHANGED <<unserialized_response, result, sreq, sresult, strace>>
        /\ UNCHANGED Built

\* A caller invokes generated method m: method_func binds the arguments and
\* builds unserialized_params, or the binder's TypeError leaves method_func.
method_func_bind ==
    /\ pc = "idle"
    /\ client_built
    /\ \E i \in DOMAIN method_map, args \in ArgLists, kwargs \in KwargLists :
        /\ call' = [method |-> method_map[i], args |-> args, kwargs |-> kwargs]
        /\ LET b == bind_params(method_config.signature, args, kwargs)
           IN  IF b.kind = "ok"
               THEN /\ pc' = "bound"
                    /\ method_name' = method_config.name
                    /\ unserialized_params' = b.value
                    /\ error' = NoError
               ELSE /\ pc' = "raised"
                    /\ method_name' = ""
                    /\ unserialized_params' = <<>>
                    /\ error' = b
        /\ UNCHANGED <<jsonrpc_params, unserialized_response, result, ctrace,
                       sreq, sresult, strace>>
        /\ UNCHANGED Built

\* jsonrpc_params = self._serializer.serialize(method_name, unserialized_params)
method_func_serialize ==
    /\ pc = "bound"
    /\ jsonrpc_params' = serialize(method_name, unserialized_params)
    /\ ctrace' = Append(ctrace, Ev("serialize", method_name))
    /\ pc' = "serialized"
    /\ UNCHANGED <<call, method_name, unserialized_params, unserialized_response,
                   result, error, sreq, sresult, strace>>
    /\ UNCHANGED Built

\* A method_func that answers a failed make_request by calling it again.
method_func_request_retry ==
    /\ pc = "serialized"
    /\ ctrace' = Append(ctrace, Ev("make_request", method_name))
    /\ UNCHANGED <<pc, error>>
    /\ UNCHANGED <<call, method_name, unserialized_params, jsonrpc_params,
                   unserialized_response, result, sreq, sresult, strace>>
    /\ UNCHANGED Built

\* self._request_client.make_request(...) raises (endpoint unreachable, bad
\* status, broken connection): nothing in method_func catches it.
method_func_request_raises ==
    /\ pc = "serialized"
    /\ ctrace' = Append(ctrace, Ev("make_request", method_name))
    /\ pc' = "raised"
    /\ error' = Raise("TransportError", "request failed", "")
    /\ UNCHANGED <<call, method_name, unserialized_params, jsonrpc_params,
                   unserialized_response, result, sreq, sresult, strace>>
    /\ UNCHANGED Built

\* make_request(service_url, method_name, jsonrpc_params) over a transport
\* that hands the params, as keyword arguments, to the handler the server
\* registered under method_name; a handler that raises fails the request.
method_func_request_delivered ==
    /\ pc = "serialized"
    /\ server_built
    /\ \E i \in DOMAIN dispatcher : dispatcher[i] = method_name
    /\ ctrace' = Append(ctrace, Ev("make_request", method_name))
    /\ LET h == wrapper(<<>>, jsonrpc_params)
       IN  /\ sreq' = [method |-> method_name, args |-> <<>>, kwargs |-> jsonrpc_params]
           /\ sresult' = h.outcome
           /\ strace' = h.trace
           /\ IF h.outcome.kind = "ok"
              THEN /\ unserialized_response' = h.outcome.value
                   /\ pc' = "responded"
                   /\ error' = NoError
              ELSE /\ unserialized_response' = 0
                   /\ pc' = "raised"
                   /\ error' = Raise("TransportError", "error response", "")
    /\ UNCHANGED <<call, method_name, unserialized_params, jsonrpc_params, result>>
    /\ UNCHANGED Built

\* return self._serializer.deserialize(method_name, unserialized_response)
method_func_deserialize ==
    /\ pc = "responded"
    /\ result' = deserialize(method_name, unserialized_response)
    /\ ctrace' = Append(ctrace, Ev("deserialize", method_name))
    /\ pc' = "returned"
    /\ UNCHANGED <<call, method_name, unserialized_params, jsonrpc_params,
                   unserialized_response, error, sreq, sresult, strace>>
    /\ UNCHANGED Built

\* Another client's request reaches the dispatcher: the handler stored under
\* name n is called with the request's params, a list or an object.
dispatch ==
    /\ pc = "idle"
    /\ server_built
    /\ \E i \in DOMAIN dispatcher, args \in ArgLists, kwargs \in KwargLists :
        /\ args = <<>> \/ kwargs = <<>>
        /\ LET h == wrapper(args, kwargs)
           IN  /\ sreq' = [method |-> dispatcher[i], args |-> args, kwargs |-> kwargs]
               /\ sresult' = h.outcome
               /\ strace' = h.trace
        /\ pc' = "handled"
        /\ UNCHANGED <<call, method_name, unserialized_params, jsonrpc_params,
                       unserialized_response, result, error, ctrace>>
        /\ UNCHANGED Built

\* The call is over; the generated object and the server keep no state of it.
finish ==
    /\ pc \in {"returned", "raised", "handled"}
    /\ pc' = "idle"
    /\ ClientIdle
    /\ ServerIdle
    /\ UNCHANGED Built

Next ==
    \/ create_jsonrpc_server
    \/ create_jsonrpc_client_factory
    \/ method_func_bind
    \/ method_func_serialize
    \/ method_func_request_raises
    \/ method_func_request_delivered
    \/ method_func_deserialize
    \/ dispatch
    \/ finish

Spec == Init /\ [][Next]_vars

\* ------------------------------------------------- vocabulary of the claims

InCall == call.method # ""

\* The signature method m declares, and the one a call of the generated
\* method binds against.
SignatureOf(m) == getattr_method(service_cls, m).params
BoundSignature == method_config.signature

\* The four binding rules, each stated on its own for a call (args, kwargs)
\* of a method with signature sig (the receiver takes the first parameter).
TooManyPositional(sig, args) == Len(args) + 1 > Len(sig)
DuplicateBinding(sig, args, kwargs) ==
    \E i \in DOMAIN sig : i <= Len(args) + 1 /\ Has(kwargs, sig[i].name)
UnexpectedKeyword(sig, kwargs) ==
    \E k \in DOMAIN kwargs : \A i \in DOMAIN sig : sig[i].name # kwargs[k].name
MissingRequired(sig, args, kwargs) ==
    \E i \in DOMAIN sig :
        i > Len(args) + 1 /\ ~sig[i].has_default /\ ~Has(kwargs, sig[i].name)
Unbindable(sig, args, kwargs) ==
    \/ TooManyPositional(sig, args)
    \/ DuplicateBinding(sig, args, kwargs)
    \/ UnexpectedKeyword(sig, kwargs)
    \/ MissingRequired(sig, args, kwargs)

BindingFailed == pc = "raised" /\ error.kind = "TypeError"
TransportFailed == pc = "raised" /\ error.kind = "TransportError"

Count(tr, op) == Cardinality({ i \in DOMAIN tr : tr[i].op = op })

\* The parameters of sig after the receiver, and the map a direct call with
\* the required arguments args gives: every parameter once, in order.
Declared(sig) == Tail(sig)
Required(sig) == SelectSeq(Declared(sig), LAMBDA q : ~q.has_default)
Optional(sig) == SelectSeq(Declared(sig), LAMBDA q : q.has_default)
DeclaredMap(sig, args) ==
    [i \in DOMAIN Declared(sig) |->
        IF i <= Len(args) THEN Item(Declared(sig)[i].name, args[i])
        ELSE Item(Declared(sig)[i].name, Declared(sig)[i].default)]

Perms(S) ==
    { q \in SeqsUpTo(S, Cardinality(S)) :
        /\ Len(q) = Cardinality(S)
        /\ \A a, b \in DOMAIN q : a # b => q[a] # q[b] }

\* The calls that repeat args and hand every optional parameter of sig its
\* own default: the first j positionally, the others by keyword in any order.
ExplicitDefaultCalls(sig, args) ==
    LET opt == Optional(sig)
        items(j) == { Item(opt[i].name, opt[i].default) : i \in (j + 1)..Len(opt) }
    IN  UNION { { [args |-> args \o [i \in 1..j |-> opt[i].default], kwargs |-> k] :
                    k \in Perms(items(j)) } : j \in 0..Len(opt) }

RequiredOnlyCall ==
    /\ InCall
    /\ call.kwargs = <<>>
    /\ Len(call.args) = Len(Required(SignatureOf(call.method)))

\* ------------------------------------------------------------------ claims

\* C1: with the identity serializer and a transport that delivers the request
\* to the handler registered under the method name, a legal call of generated
\* method m returns what the same call of the implementation's m returns.
C1_RoundTripEqualsDirectCall ==
    (/\ InCall
     /\ pc \in {"returned", "raised"}
     /\ error.msg # "request failed"
     /\ call_method(getattr_method(service_cls, call.method),
                    call.args, call.kwargs).kind = "ok")
    => /\ pc = "returned"
       /\ result = call_method(getattr_method(service_cls, call.method),
                               call.args, call.kwargs).value

\* C2: a call of generated method m binds against m's own signature and hands
\* m's own name to serialize, make_request and deserialize.
C2_OwnSignatureAndName ==
    InCall =>
        /\ \A i \in DOMAIN ctrace : ctrace[i].method = call.method
        /\ pc # "raised" => method_name = call.method
        /\ LET own == bind_params(SignatureOf(call.method), call.args, call.kwargs)
           IN  /\ own.kind = "ok" => ~BindingFailed
               /\ own.kind = "ok" /\ pc # "raised" => unserialized_params = own.value
               /\ own.kind # "ok" => BindingFailed /\ error = own

\* C3: the handler stored under name m calls the implementation's method m
\* and hands m to every serializer call it makes.
C3_HandlerOwnMethod ==
    sreq.method # "" =>
        \A i \in DOMAIN strace : strace[i].method = sreq.method

\* C4: a call whose arguments cannot be bound reaches the caller as the
\* binder's error, and serialize, make_request and deserialize were not
\* called (on either side nothing has been sent or handled).
C4_BindFailureBeforeNetwork ==
    InCall =>
        /\ Unbindable(BoundSignature, call.args, call.kwargs)
              => BindingFailed /\ ctrace = <<>> /\ strace = <<>>
        /\ BindingFailed
              => /\ Unbindable(BoundSignature, call.args, call.kwargs)
                 /\ ctrace = <<>>
                 /\ strace = <<>>
                 /\ unserialized_params = <<>>
                 /\ jsonrpc_params = <<>>

C4_Witness ==
    /\ BindingFailed
    /\ error.msg = "got an unexpected keyword argument"
    /\ call.method = "bar"
    /\ server_built

\* C5: a call of m that breaks one of the four rules of m's declared
\* parameters fails in binding and produces no parameter map; bar() fails as
\* missing required argument x, bar(1, 2, 3) as too many positional arguments.
C5_BindingFailsOnOwnRules ==
    InCall =>
        LET sig == SignatureOf(call.method)
        IN  /\ Unbindable(sig, call.args, call.kwargs)
                  => BindingFailed /\ unserialized_params = <<>>
            /\ (call.method = "bar" /\ call.args = <<>> /\ call.kwargs = <<>>)
                  => /\ BindingFailed
                     /\ error.msg = "missing a required argument"
                     /\ error.arg = "x"
            /\ (call.method = "bar" /\ Len(call.args) = 3 /\ call.kwargs = <<>>)
                  => /\ BindingFailed
                     /\ error.msg = "too many positional arguments"

\* C6: a call of m with only the required arguments hands serialize the map
\* of every declared parameter of m (the receiver left out) exactly once, and
\* the same map as any call that also supplies each default explicitly.
C6_DefaultsOmittedOrExplicit ==
    RequiredOnlyCall =>
        LET sig == SignatureOf(call.method)
        IN  /\ ~BindingFailed
            /\ pc # "raised" =>
                  /\ unserialized_params = DeclaredMap(sig, call.args)
                  /\ \A c \in ExplicitDefaultCalls(sig, call.args) :
                        LET b == bind_params(BoundSignature, c.args, c.kwargs)
                        IN  b.kind = "ok" /\ b.value = unserialized_params

\* C7 (as stated): method_configs lists the service methods in the order the
\* class declares them.
C7_DeclarationOrder ==
    /\ client_built =>
          Keys(method_configs) = Keys(SelectSeq(service_cls, is_service_method))
    /\ server_built =>
          method_names = Keys(SelectSeq(service_cls, is_service_method))

IsServiceConfigOrder(names) ==
    /\ \A i \in DOMAIN service_cls :
          service_cls[i].marked <=>
              \E j \in DOMAIN names : names[j] = service_cls[i].name
    /\ \A i, j \in DOMAIN names : i < j => StrLess(names[i], names[j])

\* C7 (amended): method_configs lists exactly the service methods, each once,
\* in ascending order of their names (str comparison), whatever the order of
\* declaration; the client's and the server's extraction give the same order.
C7_SortedByName ==
    /\ client_built => IsServiceConfigOrder(Keys(method_configs))
    /\ server_built => IsServiceConfigOrder(method_names)
    /\ client_built /\ server_built => Keys(method_configs) = method_names

C7_Witness ==
    /\ client_built
    /\ server_built
    /\ Len(method_configs) >= 2
    /\ Keys(method_configs) # Keys(SelectSeq(service_cls, is_service_method))

\* C8: one proxy call invokes make_request at most once; when make_request
\* raises, that exception reaches the caller, deserialize is not invoked and
\* nothing is returned.
C8_NoRetryTransportErrorPropagates ==
    InCall =>
        /\ Count(ctrace, "make_request") <= 1
        /\ pc \in {"bound", "serialized"} => Count(ctrace, "make_request") = 0
        /\ pc \in {"responded", "returned"} => Count(ctrace, "make_request") = 1
        /\ TransportFailed =>
              /\ ctrace = <<Ev("serialize", method_name), Ev("make_request", method_name)>>
              /\ Count(ctrace, "deserialize") = 0
              /\ result = 0
              /\ unserialized_response = 0

C8_Witness ==
    /\ TransportFailed
    /\ error.msg = "request failed"
    /\ Count(ctrace, "make_request") = 1

ReportedFirst(sig, args, kwargs) ==
    IF DuplicateBinding(sig, args, kwargs) THEN "multiple values for argument"
    ELSE IF TooManyPositional(sig, args) THEN "too many positional arguments"
    ELSE IF MissingRequired(sig, args, kwargs) THEN "missing a required argument"
    ELSE IF UnexpectedKeyword(sig, kwargs) THEN "got an unexpected keyword argument"
    ELSE ""

\* C10 (as stated): too many positional arguments is reported before any
\* keyword failure, and a keyword failure before a missing required argument.
C10_ClaimedPrecedence ==
    InCall =>
        LET sig == BoundSignature
        IN  /\ TooManyPositional(sig, call.args)
                  => BindingFailed /\ error.msg = "too many positional arguments"
            /\ (/\ ~TooManyPositional(sig, call.args)
                /\ \/ UnexpectedKeyword(sig, call.kwargs)
                   \/ DuplicateBinding(sig, call.args, call.kwargs))
                  => /\ BindingFailed
                     /\ error.msg \in {"got an unexpected keyword argument",
                                       "multiple values for argument"}

\* C10 (amended): of the rules a call breaks, the one reported is the first
\* of: a parameter given both positionally and by keyword, too many
\* positional arguments, a missing required argument, an unexpected keyword.
C10_BindPrecedence ==
    InCall =>
        LET first == ReportedFirst(BoundSignature, call.args, call.kwargs)
        IN  /\ first # "" => BindingFailed /\ error.msg = first
            /\ BindingFailed => error.msg = first

\* bar(1, 1, 1, x=1)-shaped: a duplicate and an overflow in one call.
C10_Witness ==
    /\ BindingFailed
    /\ DuplicateBinding(BoundSignature, call.args, call.kwargs)
    /\ TooManyPositional(BoundSignature, call.args)
    /\ error.msg = "multiple values for argument"

====
